---- MODULE Spec2Model ----
(***************************************************************************)
(* A model of the ilo instruction-set simulator: the register file, the    *)
(* word-addressed RAM and the program counter of cpu.rs, the fetch-decode- *)
(* execute step with one action per arm of its opcode match, the commands  *)
(* of app.rs (RUN, HALT, STEP, LOAD) that drive it, and the disassembler   *)
(* of disassemble.rs that the instruction pane of ui.rs renders.           *)
(*                                                                         *)
(* RAM is a 65536-cell array that is zero almost everywhere; it is kept as *)
(* a function on the cells that were written, every other cell reading     *)
(* 0x0000 (RamAt).                                                         *)
(***************************************************************************)
EXTENDS Integers, Sequences, FiniteSets, TLC

VARIABLES
    registers,         \* Cpu.registers: [u16; 0x20]
    program_counter,   \* Cpu.program_counter: u16
    ram,               \* Cpu.ram: [u16; 0x10000], the cells written so far
    panic,             \* "none", or the panic that ended the process
    overflow_checks,   \* the build: TRUE when rustc's overflow checks are on
    loads,             \* number of images loaded so far
    steps,             \* number of Cpu::step calls so far
    pre,               \* the machine just before the latest operation
    pre2,              \* the machine just before the operation before that
    little_endian,     \* the build: TRUE when the target is little-endian
    running,           \* App.running
    command_result,    \* App.command_result
    instruction_history, \* App.instruction_history: VecDeque<(u16, u16)>
    stepping,          \* TRUE inside the loop of the STEP command
    remaining,         \* iterations the loop of the STEP command has left
    commands,          \* number of commands executed so far
    entered,           \* the command buffer the latest execute_command saw
    listing,           \* the line the instruction pane rendered last
    command_buffer,    \* App.command_buffer, as the command line it spells
    handled,           \* run_app: "poll" before the key poll of an iteration,
                       \* afterwards the event this iteration handled
    at_command,        \* the machine when the latest execute_command began
    written,           \* the words stored by ST and STIO that no LOAD has replaced
    twin               \* the step of the machine a twin run is compared with

vars ==
    <<registers, program_counter, ram, panic, overflow_checks, loads, steps, pre, pre2,
      little_endian, running, command_result, instruction_history, stepping,
      remaining, commands, entered, listing, command_buffer, handled, at_command,
      written, twin>>

\* ------------------------------------------------------------------ bounds
MaxLoads == 1
MaxSteps == 5
MaxCommands == 2

\* --------------------------------------------------------------- constants
RegisterCount == 32
WordModulus == 65536
SignBit == 32768
WordBits == 16
HistoryLimit == 255

Word == 0 .. (WordModulus - 1)

\* --------------------------------------------------------- u16 arithmetic
Pow2(n) == 2 ^ n

WrappingAdd(x, y) == (x + y) % WordModulus

\* u16::saturating_sub in place of wrapping_sub
SaturatingSub(x, y) == IF x >= y THEN x - y ELSE 0

WrappingSub(x, y) == (x + WordModulus - y) % WordModulus

RECURSIVE BitAnd(_, _)
BitAnd(x, y) ==
    IF x = 0 \/ y = 0 THEN 0
    ELSE (x % 2) * (y % 2) + 2 * BitAnd(x \div 2, y \div 2)

RECURSIVE BitOr(_, _)
BitOr(x, y) ==
    IF x = 0 THEN y
    ELSE IF y = 0 THEN x
    ELSE ((x % 2) + (y % 2) - (x % 2) * (y % 2)) + 2 * BitOr(x \div 2, y \div 2)

RECURSIVE BitXor(_, _)
BitXor(x, y) ==
    IF x = 0 THEN y
    ELSE IF y = 0 THEN x
    ELSE (((x % 2) + (y % 2)) % 2) + 2 * BitXor(x \div 2, y \div 2)

\* (x as i16) for a u16 bit pattern x
AsI16(x) == IF x >= SignBit THEN x - WordModulus ELSE x

\* (x as i16).is_positive(): strictly greater than zero
IsPositive(x) == AsI16(x) > 0

\* the bit pattern of -(x as i16) where the negation wraps
Negated(x) == (WordModulus - x) % WordModulus

\* x << n, x >> n on u16 and (x as i16) >> n, for an in-range amount n
Shl16(x, n) == (x * Pow2(n)) % WordModulus

Shr16(x, n) == x \div Pow2(n)

Sar16(x, n) ==
    (x \div Pow2(n)) + (IF x >= SignBit THEN WordModulus - Pow2(WordBits - n) ELSE 0)

\* The panic a shift by the operand s raises when overflow checks are on:
\* the amount is s itself when s is positive and -(s as i16) otherwise.
ShiftPanic(s) ==
    IF IsPositive(s)
    THEN (IF s >= WordBits THEN "shift overflow" ELSE "none")
    ELSE IF s = SignBit THEN "negate overflow"
    ELSE IF Negated(s) >= WordBits THEN "shift overflow"
    ELSE "none"

\* The amount actually shifted by: without overflow checks the amount is
\* masked to the width of the shifted type.
Amount(s) == IF IsPositive(s) THEN s % WordBits ELSE Negated(s) % WordBits

SllValue(d, s) == IF IsPositive(s) THEN Shl16(d, Amount(s)) ELSE Shr16(d, Amount(s))

\* SRL that shifts right whatever the sign of the amount
SrlValueOneWay(d, s) == Shr16(d, Amount(s))

SrlValue(d, s) == IF IsPositive(s) THEN Shr16(d, Amount(s)) ELSE Shl16(d, Amount(s))

SraValue(d, s) == IF IsPositive(s) THEN Sar16(d, Amount(s)) ELSE Shl16(d, Amount(s))

\* ---------------------------------------------------------------- memory
RamAt(m, a) == IF a \in DOMAIN m THEN m[a] ELSE 0

RamPut(m, a, w) == [x \in (DOMAIN m) \cup {a} |-> IF x = a THEN w ELSE m[x]]

\* ------------------------------------------------------ fetch and decode
Instruction(m, pc) == RamAt(m, pc)

Immediate(m, pc) == RamAt(m, WrappingAdd(pc, 1))

SourceIndex(i) == i \div 2048

DestinationIndex(i) == (i \div 64) % 32

Opcode(i) == i % 64

Source(r, i) == IF SourceIndex(i) = 0 THEN 0 ELSE r[SourceIndex(i)]

Destination(r, i) == r[DestinationIndex(i)]

\* the offset of JSH taken with a logical shift: (instruction & 0xFFC0) >> 6
JshOffsetUnsigned(i) == (i - (i % 64)) \div 64

\* the sign-extended 10-bit offset of JSH: (instruction & 0xFFC0) as i16 >> 6
JshOffset(i) == AsI16(i - (i % 64)) \div 64

WrappingAddSigned(x, o) == (x + o + WordModulus) % WordModulus

instruction == Instruction(ram, program_counter)
immediate == Immediate(ram, program_counter)
source == Source(registers, instruction)
destination == Destination(registers, instruction)
opcode == Opcode(instruction)

AssignedOpcodes ==
    (0 .. 7) \cup {8, 10, 11, 12, 13, 15} \cup {16, 17, 24, 25} \cup (40 .. 47)

\* ------------------------------------------------------------ construction
\* a register file whose last slot is not cleared
NewRegistersUncleared == [i \in 0 .. (RegisterCount - 1) |-> IF i = RegisterCount - 1 THEN 1 ELSE 0]

NewRegisters == [i \in 0 .. (RegisterCount - 1) |-> 0]

NewRam == << >>

NewProgramCounter == 0

NoLiteral == [kind |-> "none", text |-> ""]

NoFile == [exists |-> FALSE, bytes |-> << >>]

NoCommand == [verb |-> "none", literal |-> NoLiteral, file |-> NoFile]

\* String::new(): the empty command buffer
EmptyLine == [verb |-> "", literal |-> NoLiteral]

NoTwin == [compared |-> FALSE]

Ok(message, values) == [ok |-> TRUE, message |-> message, values |-> values]

Err(message) == [ok |-> FALSE, message |-> message, values |-> << >>]

Snapshot(kind) ==
    [kind |-> kind, registers |-> registers,
     program_counter |-> program_counter, ram |-> ram,
     instruction_history |-> instruction_history, running |-> running,
     written |-> written]

Init ==
    /\ registers = NewRegisters
    /\ ram = NewRam
    /\ program_counter = NewProgramCounter
    /\ panic = "none"
    /\ overflow_checks \in BOOLEAN
    /\ loads = 0
    /\ steps = 0
    /\ pre = [kind |-> "new", registers |-> NewRegisters,
              program_counter |-> NewProgramCounter, ram |-> NewRam,
              instruction_history |-> << >>, running |-> FALSE,
              written |-> << >>]
    /\ pre2 = pre
    /\ little_endian \in BOOLEAN
    /\ running = FALSE
    /\ command_result = Ok("", << >>)
    /\ instruction_history = << >>
    /\ stepping = FALSE
    /\ remaining = 0
    /\ commands = 0
    /\ entered = NoCommand
    /\ listing = "not rendered"
    /\ command_buffer = EmptyLine
    /\ handled = "poll"
    /\ at_command = [steps |-> 0, machine |-> pre]
    /\ written = << >>
    /\ twin = NoTwin

\* -------------------------------------------------------------- Cpu::step
\* the counter advanced with a plain addition
AdvanceUnwrapped(n) == program_counter + n

Advance(n) == WrappingAdd(program_counter, n)

\* the result written through the source field instead of the destination
WriteSourceSlot(v) == [registers EXCEPT ![SourceIndex(instruction)] = v]

WriteDestination(v) == [registers EXCEPT ![DestinationIndex(instruction)] = v]

\* a driver loop that steps at the end of every iteration, running or not
\* (DrivenWhileHalted); App::step is called by the loop of the STEP command
\* while it has iterations left, and otherwise by run_app, at the end of an
\* iteration, when the simulation is running (Driven)
DrivenWhileHalted ==
    /\ panic = "none"
    /\ steps < MaxSteps
    /\ IF stepping THEN remaining > 0 ELSE handled # "poll"

Driven ==
    /\ panic = "none"
    /\ steps < MaxSteps
    /\ IF stepping THEN remaining > 0 ELSE (running /\ handled # "poll")

Fetched(op) ==
    /\ Driven
    /\ opcode = op

\* App::step records the fetched pair, oldest entry dropped beyond the limit
\* a history that is never trimmed
PushHistoryUnbounded(h, e) == Append(h, e)

PushHistory(h, e) ==
    IF Len(Append(h, e)) > HistoryLimit THEN Tail(Append(h, e)) ELSE Append(h, e)

Stepped ==
    /\ steps' = steps + 1
    /\ pre' = Snapshot("step")
    /\ pre2' = pre
    /\ instruction_history' = PushHistory(instruction_history, <<instruction, immediate>>)
    /\ remaining' = IF stepping THEN remaining - 1 ELSE remaining
    /\ handled' = IF stepping THEN handled ELSE "poll"
    /\ written' =
          CASE opcode = 17 -> RamPut(written, source, destination)
            [] opcode = 25 -> RamPut(written, WrappingAdd(source, immediate), destination)
            [] OTHER -> written
    /\ UNCHANGED <<overflow_checks, little_endian, loads, commands, running,
                   command_result, stepping, entered, listing, command_buffer,
                   at_command, twin>>

Finish(r, pc, m) ==
    /\ registers' = r
    /\ program_counter' = pc
    /\ ram' = m
    /\ UNCHANGED panic
    /\ Stepped

Abort(msg) ==
    /\ panic' = msg
    /\ UNCHANGED <<registers, program_counter, ram>>
    /\ Stepped

\* a shift arm: the shift expression panics under overflow checks when its
\* amount is out of range, before anything is assigned
FinishShift(s, v, n) ==
    IF overflow_checks /\ ShiftPanic(s) # "none"
    THEN Abort(ShiftPanic(s))
    ELSE Finish(WriteDestination(v), Advance(n), ram)

Branch(taken) ==
    Finish(registers, IF taken THEN immediate ELSE Advance(2), ram)

\* an ADD that adds the immediate word as well
ADD_AddsImmediate ==
    /\ Fetched(0)
    /\ Finish(WriteDestination(WrappingAdd(WrappingAdd(destination, source), immediate)),
              Advance(1), ram)

ADD ==
    /\ Fetched(0)
    /\ Finish(WriteDestination(WrappingAdd(destination, source)), Advance(1), ram)

SUB ==
    /\ Fetched(1)
    /\ Finish(WriteDestination(WrappingSub(destination, source)), Advance(1), ram)

AND ==
    /\ Fetched(2)
    /\ Finish(WriteDestination(BitAnd(destination, source)), Advance(1), ram)

OR ==
    /\ Fetched(3)
    /\ Finish(WriteDestination(BitOr(destination, source)), Advance(1), ram)

XOR ==
    /\ Fetched(4)
    /\ Finish(WriteDestination(BitXor(destination, source)), Advance(1), ram)

SLL ==
    /\ Fetched(5)
    /\ FinishShift(source, SllValue(destination, source), 1)

SRL ==
    /\ Fetched(6)
    /\ FinishShift(source, SrlValue(destination, source), 1)

SRA ==
    /\ Fetched(7)
    /\ FinishShift(source, SraValue(destination, source), 1)

\* ADDI advancing as a one-word instruction
ADDI_OneWord ==
    /\ Fetched(8)
    /\ Finish(WriteDestination(WrappingAdd(source, immediate)), Advance(1), ram)

ADDI ==
    /\ Fetched(8)
    /\ Finish(WriteDestination(WrappingAdd(source, immediate)), Advance(2), ram)

ANDI ==
    /\ Fetched(10)
    /\ Finish(WriteDestination(BitAnd(source, immediate)), Advance(2), ram)

ORI ==
    /\ Fetched(11)
    /\ Finish(WriteDestination(BitOr(source, immediate)), Advance(2), ram)

XORI ==
    /\ Fetched(12)
    /\ Finish(WriteDestination(BitXor(source, immediate)), Advance(2), ram)

SFTI ==
    /\ Fetched(13)
    /\ FinishShift(immediate, SllValue(source, immediate), 2)

SRAI ==
    /\ Fetched(15)
    /\ FinishShift(immediate, SraValue(source, immediate), 2)

LD ==
    /\ Fetched(16)
    /\ Finish(WriteDestination(RamAt(ram, source)), Advance(1), ram)

\* an ST that advances without writing memory
ST_Discarded ==
    /\ Fetched(17)
    /\ Finish(registers, Advance(1), ram)

ST ==
    /\ Fetched(17)
    /\ Finish(registers, Advance(1), RamPut(ram, source, destination))

LDIO ==
    /\ Fetched(24)
    /\ Finish(WriteDestination(RamAt(ram, WrappingAdd(source, immediate))), Advance(2), ram)

STIO ==
    /\ Fetched(25)
    /\ Finish(registers, Advance(2), RamPut(ram, WrappingAdd(source, immediate), destination))

\* JAL reading its source register after the destination was written
JAL_SourceAfterWrite ==
    /\ Fetched(40)
    /\ Finish(WriteDestination(WrappingAdd(program_counter, 2)),
              WrappingAdd(Source(WriteDestination(WrappingAdd(program_counter, 2)), instruction),
                          immediate), ram)

JAL ==
    /\ Fetched(40)
    /\ Finish(WriteDestination(WrappingAdd(program_counter, 2)),
              WrappingAdd(source, immediate), ram)

JSH ==
    /\ Fetched(41)
    /\ Finish(registers, WrappingAddSigned(program_counter, JshOffset(instruction)), ram)

BEQ ==
    /\ Fetched(42)
    /\ Branch(destination = source)

\* BNE with the comparison of BEQ
BNE_AsBEQ ==
    /\ Fetched(43)
    /\ Branch(destination = source)

BNE ==
    /\ Fetched(43)
    /\ Branch(destination # source)

\* BLT comparing the operands as unsigned values
BLT_Unsigned ==
    /\ Fetched(44)
    /\ Branch(destination < source)

BLT ==
    /\ Fetched(44)
    /\ Branch(AsI16(destination) < AsI16(source))

BGE ==
    /\ Fetched(45)
    /\ Branch(AsI16(destination) >= AsI16(source))

BLTU ==
    /\ Fetched(46)
    /\ Branch(destination < source)

BGEU ==
    /\ Fetched(47)
    /\ Branch(destination >= source)

\* a default arm that clears the destination register
NOP_ClearsDestination ==
    /\ Driven
    /\ opcode \notin AssignedOpcodes
    /\ Finish(WriteDestination(0), program_counter, ram)

\* the default arm of the match: nothing is assigned
NOP ==
    /\ Driven
    /\ opcode \notin AssignedOpcodes
    /\ Finish(registers, program_counter, ram)

\* ------------------------------------------------------------ LOAD command
\* u16::from_ne_bytes([b0, b1]): b0 is the low byte on a little-endian
\* target and the high byte on a big-endian one
FromNeBytes(b0, b1) == IF little_endian THEN b0 + 256 * b1 ELSE 256 * b0 + b1

ChunkWords(bytes) ==
    [i \in 1 .. (Len(bytes) \div 2) |-> FromNeBytes(bytes[2 * i], bytes[2 * i - 1])]

CopyFromSlice(m, address, words) ==
    [x \in (DOMAIN m) \cup {address + i - 1 : i \in 1 .. Len(words)} |->
        IF x >= address /\ x < address + Len(words)
        THEN words[x - address + 1]
        ELSE m[x]]

\* ---------------------------------------------------- the loaded images
Enc(op, d, s) == s * 2048 + d * 64 + op

EncJsh(bits) == bits * 64 + 41

\* ADDI r1, r0, a ; ADDI r2, r0, b
Setup(a, b) == <<Enc(8, 1, 0), a, Enc(8, 2, 0), b>>

RoundTripImages ==
    {Setup(ab[1], ab[2]) \o <<Enc(0, 1, 2), Enc(1, 1, 2)>> :
        ab \in {<<65535, 2>>, <<5, 3>>, <<32768, 32768>>, <<0, 65535>>}}
    \cup {Setup(7, 9) \o <<Enc(0, 1, 1), Enc(1, 1, 1)>>}

ShiftImages ==
    {Setup(d, k) \o <<Enc(5, 1, 2)>> : d \in {32769, 65535}, k \in {0, 1, 15}}
    \cup {Setup(d, Negated(k)) \o <<Enc(6, 1, 2)>> : d \in {32769, 65535}, k \in {0, 1, 15}}
    \cup {Setup(32769, sk[2]) \o <<Enc(sk[1], 1, 2)>> :
            sk \in {<<5, 16>>, <<5, 32768>>, <<5, 65534>>, <<6, 3>>, <<6, 65519>>,
                    <<7, 1>>, <<7, 15>>, <<7, 17>>, <<7, 65535>>, <<7, 32768>>}}

LogicImages ==
    {Setup(61680, 65280) \o <<Enc(op, 1, 2)>> : op \in {2, 3, 4}}

ImmediateImages ==
    {Setup(ai[2], 0) \o <<Enc(ai[1], 3, 1), ai[3]>> :
        ai \in {<<8, 65535, 2>>, <<8, 5, 3>>, <<10, 61680, 65280>>, <<11, 61680, 65280>>,
                <<12, 61680, 65280>>, <<13, 32769, 4>>, <<13, 32769, 65532>>,
                <<13, 32769, 16>>, <<13, 32769, 32768>>, <<15, 32769, 1>>,
                <<15, 32769, 65535>>, <<15, 32769, 33>>}}
    \cup {<<Enc(8, 1, 0), 5>>}

MemoryImages ==
    { Setup(4660, 256) \o <<Enc(17, 1, 2), Enc(16, 3, 2)>>,
      Setup(4660, 65535) \o <<Enc(25, 1, 2), 3, Enc(24, 3, 2), 3>>,
      Setup(4, 6) \o <<Enc(40, 3, 2), 65535>>,
      Setup(4, 100) \o <<Enc(40, 2, 2), 10>> }

JumpImages ==
    {<<EncJsh(bits)>> : bits \in {2, 1022, 511, 512}}

BranchImages ==
    {Setup(ab[1], ab[2]) \o <<Enc(op, 1, 2), 16>> :
        op \in 42 .. 47, ab \in {<<1, 1>>, <<1, 65535>>, <<65535, 1>>}}
    \cup {<<Enc(42, 1, 0), 16>>, <<Enc(8, 1, 0), 1, Enc(42, 1, 0), 16>>}

ZeroRegisterImages ==
    { <<Enc(8, 0, 0), 5, Enc(0, 1, 0)>>,
      <<Enc(8, 0, 0), 5, Enc(0, 0, 0), Enc(17, 0, 0)>>,
      <<Enc(8, 0, 0), 5, Enc(42, 0, 0), 16>> }

UnassignedImages ==
    { <<63>>, <<Enc(9, 1, 2)>>, <<Enc(8, 1, 0), 7, Enc(14, 1, 1)>> }

\* plant the word w at 0xFFFF and jump there: the word at address 0 is then
\* the immediate word of the instruction at 0xFFFF
WrapImages ==
    {<<Enc(8, 1, 0), w, Enc(8, 2, 0), 65535, Enc(17, 1, 2), EncJsh(1018)>> :
        w \in {Enc(0, 1, 2), Enc(8, 3, 1), Enc(43, 1, 1), Enc(17, 1, 2)}}

Images ==
    RoundTripImages \cup ShiftImages \cup LogicImages \cup ImmediateImages
    \cup MemoryImages \cup JumpImages \cup BranchImages \cup ZeroRegisterImages
    \cup UnassignedImages \cup WrapImages

RECURSIVE ToBytes(_)
ToBytes(words) ==
    IF words = << >> THEN << >>
    ELSE <<Head(words) \div 256, Head(words) % 256>> \o ToBytes(Tail(words))

\* a file with a trailing odd byte
OddFiles == {ToBytes(<<Enc(8, 1, 0), 5>>) \o <<171>>}

Files == {ToBytes(w) : w \in Images} \cup OddFiles

\* ------------------------------------------------------------ the commands
Literal(kind, text) == [kind |-> kind, text |-> text]

Command(verb, literal, file) == [verb |-> verb, literal |-> literal, file |-> file]

Radix(kind) ==
    CASE kind = "decimal_literal" -> 10
      [] kind = "hex_literal" -> 16
      [] kind = "binary_literal" -> 2

DigitValue(c) ==
    CHOOSE d \in 0 .. 15 :
        \/ SubSeq("0123456789abcdef", d + 1, d + 1) = c
        \/ SubSeq("0123456789ABCDEF", d + 1, d + 1) = c

RECURSIVE ParseDigits(_, _, _)
ParseDigits(text, radix, acc) ==
    IF Len(text) = 0 THEN acc
    ELSE ParseDigits(SubSeq(text, 2, Len(text)), radix,
                     acc * radix + DigitValue(SubSeq(text, 1, 1)))

\* a parse that keeps the low 16 bits of a value that does not fit
FromStrRadixTruncating(text, radix) ==
    [ok |-> TRUE, value |-> ParseDigits(text, radix, 0) % WordModulus]

\* u16::from_str_radix: an error when the value does not fit in 16 bits
FromStrRadix(text, radix) ==
    IF ParseDigits(text, radix, 0) >= WordModulus
    THEN [ok |-> FALSE, value |-> 0]
    ELSE [ok |-> TRUE, value |-> ParseDigits(text, radix, 0)]

\* the numeric argument of STEP and LOAD, with its default when omitted
ParseLiteral(literal, default) ==
    IF literal.kind = "none" THEN [ok |-> TRUE, value |-> default]
    ELSE FromStrRadix(literal.text, Radix(literal.kind))

StepLiterals ==
    { NoLiteral, Literal("decimal_literal", "0"), Literal("hex_literal", "2"),
      Literal("binary_literal", "101"), Literal("decimal_literal", "65536"),
      Literal("binary_literal", "10000000000000000") }

File(bytes) == [exists |-> TRUE, bytes |-> bytes]

\* the arguments of LOAD: every file at the default address, a one-word and
\* a longer file at the last address, a literal that is out of range and a
\* file that does not exist
LoadArguments ==
    {<<NoLiteral, File(b)>> : b \in Files}
    \cup {<<Literal("hex_literal", "FFFF"), File(ToBytes(w))>> :
            w \in {<<Enc(0, 1, 2)>>, <<Enc(8, 1, 0), 5>>}}
    \cup { <<Literal("decimal_literal", "65536"), File(ToBytes(<<Enc(8, 1, 0), 5>>))>>,
           <<Literal("hex_literal", "10000"), NoFile>>,
           <<NoLiteral, NoFile>> }

\* a command line as the key presses spell it: the verb and its literal
Line(verb, literal) == [verb |-> verb, literal |-> literal]

\* the command lines that are typed
Lines ==
    {Line("run", NoLiteral), Line("halt", NoLiteral), Line("unknown", NoLiteral)}
    \cup {Line("step", literal) : literal \in StepLiterals}
    \cup {Line("load", argument[1]) : argument \in LoadArguments}

\* run_app, KeyCode::Char: the key presses that spell a command line are
\* pushed to the command buffer
KeyChar ==
    /\ panic = "none"
    /\ ~stepping
    /\ handled = "poll"
    /\ commands < MaxCommands
    /\ command_buffer = EmptyLine
    /\ \E line \in Lines : command_buffer' = line
    /\ handled' = "char"
    /\ UNCHANGED <<registers, program_counter, ram, panic, overflow_checks, loads, steps,
                   pre, pre2, little_endian, running, command_result,
                   instruction_history, stepping, remaining, commands, entered,
                   listing, at_command, written, twin>>

\* run_app: the poll of an iteration finds no key press
NoKey ==
    /\ panic = "none"
    /\ ~stepping
    /\ handled = "poll"
    /\ handled' = "no key"
    /\ UNCHANGED <<registers, program_counter, ram, panic, overflow_checks, loads, steps,
                   pre, pre2, little_endian, running, command_result,
                   instruction_history, stepping, remaining, commands, entered,
                   listing, command_buffer, at_command, written, twin>>

\* run_app: the iteration ends without a step, the simulation is not running
Idle ==
    /\ panic = "none"
    /\ ~stepping
    /\ handled # "poll"
    /\ ~running
    /\ handled' = "poll"
    /\ UNCHANGED <<registers, program_counter, ram, panic, overflow_checks, loads, steps,
                   pre, pre2, little_endian, running, command_result,
                   instruction_history, stepping, remaining, commands, entered,
                   listing, command_buffer, at_command, written, twin>>

\* run_app, KeyCode::Enter: execute_command runs the command in the buffer
\* to its end: none is in progress, and the process has not panicked
Entered(cmd) ==
    /\ panic = "none"
    /\ ~stepping
    /\ handled = "poll"
    /\ commands < MaxCommands
    /\ command_buffer = Line(cmd.verb, cmd.literal)
    /\ commands' = commands + 1
    /\ entered' = cmd
    /\ handled' = "enter"
    /\ at_command' = [steps |-> steps, machine |-> Snapshot("command")]
    /\ pre2' = pre
    /\ UNCHANGED <<registers, program_counter, overflow_checks, little_endian,
                   steps, instruction_history, listing, twin>>

\* execute_command: the result is stored and the command buffer is cleared
Return(result) ==
    /\ command_result' = result
    /\ command_buffer' = EmptyLine

\* an error returned before anything is assigned
Rejected(message) ==
    /\ Return(Err(message))
    /\ pre' = Snapshot("rejected")
    /\ UNCHANGED <<ram, panic, loads, running, stepping, remaining, written>>

Run ==
    /\ Entered(Command("run", NoLiteral, NoFile))
    /\ running' = TRUE
    /\ Return(Ok("Running simulation.", << >>))
    /\ pre' = Snapshot("run")
    /\ UNCHANGED <<ram, panic, loads, stepping, remaining, written>>

Halt ==
    /\ Entered(Command("halt", NoLiteral, NoFile))
    /\ running' = FALSE
    /\ Return(Ok("Simulation halted at", <<program_counter>>))
    /\ pre' = Snapshot("halt")
    /\ UNCHANGED <<ram, panic, loads, stepping, remaining, written>>

\* a STEP whose loop runs over 0..=step_size
StepCommand_Inclusive ==
    \E literal \in StepLiterals :
        /\ Entered(Command("step", literal, NoFile))
        /\ IF ParseLiteral(literal, 1).ok
           THEN /\ stepping' = TRUE
                /\ remaining' = ParseLiteral(literal, 1).value + 1
                /\ pre' = Snapshot("step command")
                /\ UNCHANGED <<ram, panic, loads, running, command_result,
                               command_buffer, written>>
           ELSE Rejected("number too large to fit in target type")

\* STEP: the count is parsed, then the loop calls App::step that many times
StepCommand ==
    \E literal \in StepLiterals :
        /\ Entered(Command("step", literal, NoFile))
        /\ IF ParseLiteral(literal, 1).ok
           THEN /\ stepping' = TRUE
                /\ remaining' = ParseLiteral(literal, 1).value
                /\ pre' = Snapshot("step command")
                /\ UNCHANGED <<ram, panic, loads, running, command_result,
                               command_buffer, written>>
           ELSE Rejected("number too large to fit in target type")

\* the loop of STEP is over: the command returns its message
StepCommandReturn ==
    /\ panic = "none"
    /\ stepping
    /\ remaining = 0
    /\ stepping' = FALSE
    /\ Return(Ok("Stepping simulation", <<ParseLiteral(entered.literal, 1).value>>))
    /\ UNCHANGED <<registers, program_counter, ram, panic, overflow_checks, loads, steps,
                   pre, pre2, little_endian, running, instruction_history, remaining,
                   commands, entered, listing, handled, at_command, written, twin>>

Load(address, bytes) ==
    /\ loads < MaxLoads
    /\ loads' = loads + 1
    /\ pre' = Snapshot("load")
    /\ IF address + Len(bytes) \div 2 > WordModulus
       THEN /\ panic' = "slice range"
            /\ UNCHANGED <<ram, command_result, command_buffer, written>>
       ELSE /\ ram' = CopyFromSlice(ram, address, ChunkWords(bytes))
            /\ written' =
                  [a \in {x \in DOMAIN written :
                            x < address \/ x >= address + Len(bytes) \div 2} |-> written[a]]
            /\ Return(Ok("Loaded", <<Len(ChunkWords(bytes)), address>>))
            /\ UNCHANGED panic
    /\ UNCHANGED <<running, stepping, remaining>>

LoadCommand ==
    \E argument \in LoadArguments :
        LET literal == argument[1]
            file == argument[2]
        IN  /\ Entered(Command("load", literal, file))
            /\ IF ~ParseLiteral(literal, 0).ok
               THEN Rejected("number too large to fit in target type")
               ELSE IF ~file.exists
               THEN Rejected("No such file or directory")
               ELSE Load(ParseLiteral(literal, 0).value, file.bytes)

\* text that matches none of the regexes, the empty buffer included
UnknownCommand ==
    \E verb \in {"", "unknown"} :
        /\ Entered(Command(verb, NoLiteral, NoFile))
        /\ Rejected("is not a valid command")

\* ------------------------------------------------------------ disassemble
Digit(d) == SubSeq("0123456789abcdef", d + 1, d + 1)

\* format!("{:02}", n) for a 5-bit field
Dec2(n) == Digit(n \div 10) \o Digit(n % 10)

\* format!("{:#06x}", n) for a u16, and for an i16 (its 16-bit pattern)
Hex4(n) ==
    "0x" \o Digit(n \div 4096) \o Digit((n \div 256) % 16)
         \o Digit((n \div 16) % 16) \o Digit(n % 16)

Hex4Signed(x) == Hex4((x + WordModulus) % WordModulus)

DisassembleSource(i) == Dec2(i \div 2048)

DisassembleDestination(i) == Dec2((i \div 64) % 32)

\* the offset of JSH taken with a logical shift
DisassembleOffsetUnsigned(i) == (i - (i % 64)) \div 64

\* (instruction & 0b1111111111000000) as i16 >> 6
DisassembleOffset(i) == AsI16(i - (i % 64)) \div 64

TwoRegisters(i) == "r" \o DisassembleDestination(i) \o ", r" \o DisassembleSource(i)

\* a default arm that names the instruction
DisassembleUnassignedNop == "NOP"

\* the default arm: String::new()
DisassembleUnassigned == ""

Disassemble(i, imm) ==
    CASE i % 64 = 0 -> "ADD  " \o TwoRegisters(i)
      [] i % 64 = 1 -> "SUB  " \o TwoRegisters(i)
      [] i % 64 = 2 -> "AND  " \o TwoRegisters(i)
      [] i % 64 = 3 -> "OR   " \o TwoRegisters(i)
      [] i % 64 = 4 -> "XOR  " \o TwoRegisters(i)
      [] i % 64 = 5 -> "SLL  " \o TwoRegisters(i)
      [] i % 64 = 6 -> "SRL  " \o TwoRegisters(i)
      [] i % 64 = 7 -> "SRA  " \o TwoRegisters(i)
      [] i % 64 = 8 -> "ADDI " \o TwoRegisters(i) \o ", " \o Hex4Signed(AsI16(imm))
      [] i % 64 = 10 -> "ANDI " \o TwoRegisters(i) \o ", " \o Hex4(imm)
      [] i % 64 = 11 -> "ORI  " \o TwoRegisters(i) \o ", " \o Hex4(imm)
      [] i % 64 = 12 -> "XORI " \o TwoRegisters(i) \o ", " \o Hex4(imm)
      [] i % 64 = 13 -> "SFTI " \o TwoRegisters(i) \o ", " \o Hex4Signed(AsI16(imm))
      [] i % 64 = 15 -> "SRAI " \o TwoRegisters(i) \o ", " \o Hex4(imm)
      [] i % 64 = 16 -> "LD   " \o TwoRegisters(i)
      [] i % 64 = 17 -> "ST   " \o TwoRegisters(i)
      [] i % 64 = 24 -> "LDIO " \o TwoRegisters(i) \o ", " \o Hex4(imm)
      [] i % 64 = 25 -> "STIO " \o TwoRegisters(i) \o ", " \o Hex4(imm)
      [] i % 64 = 40 -> "JAL  " \o TwoRegisters(i) \o ", " \o Hex4(imm)
      [] i % 64 = 41 -> "JSH            " \o Hex4Signed(DisassembleOffset(i))
      [] i % 64 = 42 -> "BEQ  " \o TwoRegisters(i) \o ", " \o Hex4(imm)
      [] i % 64 = 43 -> "BNE  " \o TwoRegisters(i) \o ", " \o Hex4(imm)
      [] i % 64 = 44 -> "BLT  " \o TwoRegisters(i) \o ", " \o Hex4(imm)
      [] i % 64 = 45 -> "BGE  " \o TwoRegisters(i) \o ", " \o Hex4(imm)
      [] i % 64 = 46 -> "BLTU " \o TwoRegisters(i) \o ", " \o Hex4(imm)
      [] i % 64 = 47 -> "BGEU " \o TwoRegisters(i) \o ", " \o Hex4(imm)
      [] OTHER -> DisassembleUnassigned

\* render_instruction_history: the first line of the pane is the disassembly
\* of the instruction the program counter points to
Render ==
    /\ panic = "none"
    /\ ~stepping
    /\ handled = "poll"
    /\ listing' = Disassemble(instruction, immediate)
    /\ pre' = Snapshot("render")
    /\ pre2' = pre
    /\ UNCHANGED <<registers, program_counter, ram, panic, overflow_checks, loads, steps,
                   little_endian, running, command_result, instruction_history,
                   stepping, remaining, commands, entered, command_buffer, handled,
                   at_command, written, twin>>

\* the instruction words and immediate words the pane is rendered for
DisassembleWords ==
    {Enc(op, ds[1], ds[2]) : op \in 0 .. 63, ds \in {<<1, 2>>, <<31, 0>>, <<0, 17>>}}
    \cup {EncJsh(2), EncJsh(1022)}

DisassembleImmediates == {5, 65534}

\* a machine that was loaded with one instruction at address 1 and set
\* running: the iteration of run_app that executed RUN has stepped over the
\* zero word at address 0 (ADD r0, r0), and the next iteration begins
InitDisassemble ==
    /\ registers = NewRegisters
    /\ program_counter = 1
    /\ \E w \in DisassembleWords, imm \in DisassembleImmediates :
            ram = CopyFromSlice(NewRam, 1, <<w, imm>>)
    /\ panic = "none"
    /\ overflow_checks \in BOOLEAN
    /\ little_endian \in BOOLEAN
    /\ loads = 1
    /\ steps = 1
    /\ commands = 2
    /\ running = TRUE
    /\ command_result = Ok("Running simulation.", << >>)
    /\ instruction_history = <<<<0, RamAt(ram, 1)>>>>
    /\ stepping = FALSE
    /\ remaining = 0
    /\ entered = Command("run", NoLiteral, NoFile)
    /\ listing = "not rendered"
    /\ command_buffer = EmptyLine
    /\ handled = "poll"
    /\ written = << >>
    /\ twin = NoTwin
    /\ pre = [kind |-> "step", registers |-> NewRegisters,
              program_counter |-> NewProgramCounter, ram |-> ram,
              instruction_history |-> << >>, running |-> TRUE,
              written |-> << >>]
    /\ pre2 = [pre EXCEPT !.kind = "run", !.running = FALSE]
    /\ at_command = [steps |-> 0, machine |-> [pre2 EXCEPT !.kind = "command"]]

\* ------------------------------------------------------------ twin machines
\* one instruction word for every arm of the match, and three unassigned ones
TwinInstructions ==
    {Enc(op, 1, 2) : op \in AssignedOpcodes \cup {9, 14, 63}}

\* the values of r2: addresses 0 and 1, a shift amount, and -16
TwinSources == {0, 1, 3, 65520}

TwinCounters == {0, 65535}

\* the words of the cell after the instruction word, and what the twin holds there
TwinImmediates == {0, 7}

TwinWords == {5, 65535}

\* a machine whose registers a program has set, whose memory a LOAD has
\* cleared but for the two cells at the program counter, and that RUN has
\* set running: the iteration that executed RUN is about to step
InitTwin ==
    /\ \E s \in TwinSources :
            registers = [NewRegisters EXCEPT ![1] = 4660, ![2] = s]
    /\ program_counter \in TwinCounters
    /\ \E w \in TwinInstructions, imm \in TwinImmediates :
            ram = RamPut(RamPut(NewRam, program_counter, w),
                         WrappingAdd(program_counter, 1), imm)
    /\ panic = "none"
    /\ overflow_checks \in BOOLEAN
    /\ little_endian \in BOOLEAN
    /\ loads = 1
    /\ steps = 0
    /\ commands = 2
    /\ running = TRUE
    /\ command_result = Ok("Running simulation.", << >>)
    /\ instruction_history = << >>
    /\ stepping = FALSE
    /\ remaining = 0
    /\ entered = Command("run", NoLiteral, NoFile)
    /\ listing = "not rendered"
    /\ command_buffer = EmptyLine
    /\ handled = "enter"
    /\ written = << >>
    /\ twin = NoTwin
    /\ pre = [kind |-> "run", registers |-> registers,
              program_counter |-> program_counter, ram |-> ram,
              instruction_history |-> << >>, running |-> FALSE,
              written |-> << >>]
    /\ pre2 = pre
    /\ at_command = [steps |-> 0, machine |-> [pre EXCEPT !.kind = "command"]]

\* the machine is put back to where its step began, with another word in the
\* cell after the instruction word; what the step gave is kept for comparison
Rewind ==
    /\ twin = NoTwin
    /\ pre.kind = "step"
    /\ steps = 1
    /\ \E w \in TwinWords :
          ram' = RamPut(pre.ram, WrappingAdd(pre.program_counter, 1), w)
    /\ twin' = [compared |-> TRUE,
                cell |-> WrappingAdd(pre.program_counter, 1),
                result |-> [registers |-> registers,
                            program_counter |-> program_counter,
                            ram |-> ram, panic |-> panic]]
    /\ registers' = pre.registers
    /\ program_counter' = pre.program_counter
    /\ instruction_history' = pre.instruction_history
    /\ written' = pre.written
    /\ panic' = "none"
    /\ handled' = "enter"
    /\ pre' = Snapshot("twin")
    /\ pre2' = pre
    /\ UNCHANGED <<overflow_checks, little_endian, loads, steps, commands, running,
                   command_result, stepping, remaining, entered, listing,
                   command_buffer, at_command>>

\* ------------------------------------------------------------ long runs
\* the history after n steps from address 0 over zero words (ADD r0, r0):
\* the k-th step fetched the cells k - 1 and k
ZeroRunHistory(m, n) == [k \in 1 .. n |-> <<RamAt(m, k - 1), RamAt(m, k)>>]

\* the snapshot of the machine during such a run, at program counter n
ZeroRunSnapshot(m, n) ==
    [kind |-> "step", registers |-> NewRegisters, program_counter |-> n, ram |-> m,
     instruction_history |-> ZeroRunHistory(m, n), running |-> TRUE,
     written |-> << >>]

\* the numbers of steps the run has made
RunLengths == {252, 253, 254}

\* ADDI r1, r0, a ; ADD r1, r1 ; JSH +1 ; an unassigned opcode
RunPrograms == {<<Enc(8, 1, 0), a, Enc(0, 1, 1), EncJsh(1), 63>> : a \in {5, 9}}

\* a machine that was loaded with a program at address n, set running, and
\* has stepped n times over the zero words below the program; steps and
\* commands are counted from this state on
InitHistory ==
    /\ registers = NewRegisters
    /\ program_counter \in RunLengths
    /\ \E words \in RunPrograms : ram = CopyFromSlice(NewRam, program_counter, words)
    /\ instruction_history = ZeroRunHistory(ram, program_counter)
    /\ panic = "none"
    /\ overflow_checks \in BOOLEAN
    /\ little_endian \in BOOLEAN
    /\ loads = 1
    /\ steps = 0
    /\ commands = 0
    /\ running = TRUE
    /\ command_result = Ok("Running simulation.", << >>)
    /\ stepping = FALSE
    /\ remaining = 0
    /\ entered = Command("run", NoLiteral, NoFile)
    /\ listing = "not rendered"
    /\ command_buffer = EmptyLine
    /\ handled = "poll"
    /\ written = << >>
    /\ twin = NoTwin
    /\ pre = ZeroRunSnapshot(ram, program_counter - 1)
    /\ pre2 = ZeroRunSnapshot(ram, program_counter - 2)
    /\ at_command = [steps |-> 0,
                     machine |-> [kind |-> "command", registers |-> NewRegisters,
                                  program_counter |-> NewProgramCounter, ram |-> ram,
                                  instruction_history |-> << >>, running |-> FALSE,
                                  written |-> << >>]]

\* ------------------------------------------------------------ specification
Next ==
    \/ KeyChar \/ NoKey \/ Idle
    \/ LoadCommand
    \/ Run \/ Halt \/ StepCommand \/ StepCommandReturn \/ UnknownCommand
    \/ ADD \/ SUB \/ AND \/ OR \/ XOR \/ SLL \/ SRL \/ SRA
    \/ ADDI \/ ANDI \/ ORI \/ XORI \/ SFTI \/ SRAI
    \/ LD \/ ST \/ LDIO \/ STIO
    \/ JAL \/ JSH
    \/ BEQ \/ BNE \/ BLT \/ BGE \/ BLTU \/ BGEU
    \/ NOP

Spec == Init /\ [][Next]_vars

Steps ==
    \/ ADD \/ SUB \/ AND \/ OR \/ XOR \/ SLL \/ SRL \/ SRA
    \/ ADDI \/ ANDI \/ ORI \/ XORI \/ SFTI \/ SRAI
    \/ LD \/ ST \/ LDIO \/ STIO
    \/ JAL \/ JSH
    \/ BEQ \/ BNE \/ BLT \/ BGE \/ BLTU \/ BGEU
    \/ NOP

NextTwin == Rewind \/ Steps

SpecTwin == InitTwin /\ [][NextTwin]_vars

NextHistory == NoKey \/ Halt \/ KeyChar \/ ADD \/ ADDI \/ JSH \/ NOP

SpecHistory == InitHistory /\ [][NextHistory]_vars

NextDisassemble == Render \/ NoKey \/ JSH

SpecDisassemble == InitDisassemble /\ [][NextDisassemble]_vars

TypeOK ==
    /\ registers \in [0 .. (RegisterCount - 1) -> Word]
    /\ program_counter \in Word
    /\ \A a \in DOMAIN ram : a \in Word /\ ram[a] \in Word
    /\ panic \in {"none", "shift overflow", "negate overflow", "slice range"}
    /\ running \in BOOLEAN
    /\ stepping \in BOOLEAN
    /\ remaining \in Word
    /\ Len(instruction_history) <= HistoryLimit
    /\ command_result.ok \in BOOLEAN
    /\ command_buffer \in Lines \cup {EmptyLine}
    /\ handled \in {"poll", "no key", "char", "enter"}
    /\ at_command.steps <= steps
    /\ \A a \in DOMAIN written : a \in Word /\ written[a] \in Word

\* ------------------------------------------------------- the latest step
LastStep == pre.kind = "step"

PreInstruction == Instruction(pre.ram, pre.program_counter)
PreImmediate == Immediate(pre.ram, pre.program_counter)
PreOpcode == Opcode(PreInstruction)
PreSourceIndex == SourceIndex(PreInstruction)
PreDestinationIndex == DestinationIndex(PreInstruction)
PreSource == Source(pre.registers, PreInstruction)
PreDestination == Destination(pre.registers, PreInstruction)

\* opcodes whose arm reads *destination: ADD..SRA, ST, STIO, BEQ..BGEU
DestinationReaders == (0 .. 7) \cup {17, 25} \cup (42 .. 47)

\* opcodes whose arm advances the counter by one word, and by two words
OneWordOpcodes == (0 .. 7) \cup {16, 17}

TwoWordOpcodes == {8, 10, 11, 12, 13, 15, 24, 25}

\* ------------------------------------------------------------------ claims

\* C1: a write to register index 0 is never observable: whenever a step
\* reads register 0, through its source field or through its destination
\* field, the value it reads is 0x0000.
C1_RegisterZeroReadsZero ==
    LastStep =>
        /\ (PreSourceIndex = 0 => PreSource = 0)
        /\ (PreDestinationIndex = 0 /\ PreOpcode \in DestinationReaders
                => PreDestination = 0)

\* C2: Cpu::step never faults: every step completes with a next state,
\* whatever the opcode and the shift amount.
C2_StepNeverFaults == LastStep => panic = "none"

\* C3: a step whose instruction has an unassigned opcode advances the
\* program counter by exactly 1 modulo 65536.
C3_UnassignedAdvancesByOne ==
    (LastStep /\ panic = "none" /\ PreOpcode \notin AssignedOpcodes)
        => program_counter = (pre.program_counter + 1) % 65536

\* C4: Cpu::new yields all 32 registers 0x0000, all 65536 memory cells
\* 0x0000 and the program counter 0x0000.
C4_NewIsAllZero ==
    pre.kind = "new" =>
        /\ DOMAIN registers = 0 .. 31
        /\ \A i \in 0 .. 31 : registers[i] = 0
        /\ \A a \in 0 .. 65535 : RamAt(ram, a) = 0
        /\ program_counter = 0

C4_Witness == pre.kind = "new" /\ steps = 0 /\ loads = 0 /\ panic = "none"

\* C5: every program-counter update of a step is modulo 65536: a one-word
\* instruction at 0xFFFF leaves the counter at 0x0000, a two-word instruction
\* at 0xFFFF leaves it at 0x0001, and the immediate word of an instruction at
\* 0xFFFF is the word at address 0x0000.
C5_ProgramCounterWraps ==
    (LastStep /\ panic = "none") =>
        /\ program_counter \in 0 .. 65535
        /\ PreOpcode \in OneWordOpcodes
              => program_counter = (pre.program_counter + 1) % 65536
        /\ PreOpcode \in TwoWordOpcodes
              => program_counter = (pre.program_counter + 2) % 65536
        /\ (PreOpcode \in OneWordOpcodes /\ pre.program_counter = 65535)
              => program_counter = 0
        /\ (PreOpcode \in TwoWordOpcodes /\ pre.program_counter = 65535)
              => program_counter = 1
        /\ (PreOpcode = 8 /\ pre.program_counter = 65535)
              => registers[PreDestinationIndex] = (PreSource + RamAt(pre.ram, 0)) % 65536
        /\ (PreOpcode \in 42 .. 47 /\ pre.program_counter = 65535)
              => program_counter \in {RamAt(pre.ram, 0), 1}

C5_Witness ==
    /\ LastStep
    /\ panic = "none"
    /\ pre.program_counter = 65535
    /\ PreOpcode = 8
    /\ RamAt(pre.ram, 0) # 0
    /\ registers[PreDestinationIndex] = (PreSource + RamAt(pre.ram, 0)) % 65536
    /\ program_counter = 1

\* C6: an ADD followed by a SUB on the same destination register with the
\* same source value leaves the destination register as it was before the
\* ADD.
C6_AddSubRoundTrip ==
    LET add == Instruction(pre2.ram, pre2.program_counter)
        sub == Instruction(pre.ram, pre.program_counter)
    IN  (/\ pre2.kind = "step" /\ pre.kind = "step" /\ panic = "none"
         /\ Opcode(add) = 0 /\ Opcode(sub) = 1
         /\ DestinationIndex(add) = DestinationIndex(sub)
         /\ Source(pre2.registers, add) = Source(pre.registers, sub))
        => registers[DestinationIndex(sub)] = pre2.registers[DestinationIndex(add)]

C6_Witness ==
    LET add == Instruction(pre2.ram, pre2.program_counter)
        sub == Instruction(pre.ram, pre.program_counter)
    IN  /\ pre2.kind = "step" /\ pre.kind = "step" /\ panic = "none"
        /\ Opcode(add) = 0 /\ Opcode(sub) = 1
        /\ DestinationIndex(add) = DestinationIndex(sub)
        /\ Source(pre2.registers, add) = Source(pre.registers, sub)
        /\ Source(pre.registers, sub) = 2
        /\ pre2.registers[DestinationIndex(add)] = 65535
        /\ pre.registers[DestinationIndex(add)] = 1
        /\ registers[DestinationIndex(sub)] = 65535

\* C7: for 0 <= k <= 15, SLL with source value k leaves the destination
\* value that SRL with source value -k (16-bit negation) leaves, both ways
\* round, and with k = 0 both leave the destination unchanged.
C7_ShiftSymmetry ==
    (LastStep /\ panic = "none") =>
        /\ (PreOpcode = 5 /\ PreSource <= 15)
              => registers[PreDestinationIndex]
                    = SrlValue(PreDestination, (65536 - PreSource) % 65536)
        /\ (PreOpcode = 6 /\ (65536 - PreSource) % 65536 <= 15)
              => registers[PreDestinationIndex]
                    = SllValue(PreDestination, (65536 - PreSource) % 65536)
        /\ (PreOpcode \in {5, 6} /\ PreSource = 0)
              => registers[PreDestinationIndex] = PreDestination

C7_Witness ==
    /\ LastStep
    /\ panic = "none"
    /\ PreOpcode = 5
    /\ PreSource = 15
    /\ PreDestination = 65535
    /\ registers[PreDestinationIndex] = 32768

\* C8: a JSH step sets the program counter to the old counter plus the
\* sign-extended 10-bit value of instruction bits [15:6], modulo 65536,
\* whatever the next word is, and changes no register and no memory cell.
C8_JshOffsetRecovered ==
    (LastStep /\ PreOpcode = 41) =>
        LET bits == PreInstruction \div 64
            offset == IF bits >= 512 THEN bits - 1024 ELSE bits
        IN  /\ panic = "none"
            /\ program_counter = (pre.program_counter + 65536 + offset) % 65536
            /\ registers = pre.registers
            /\ \A a \in DOMAIN ram \cup DOMAIN pre.ram : RamAt(ram, a) = RamAt(pre.ram, a)

C8_Witness ==
    /\ LastStep
    /\ PreInstruction = 1022 * 64 + 41
    /\ pre.program_counter = 0
    /\ program_counter = 65534

\* C9: an ADDI step sets the destination register to (source value +
\* immediate word) mod 2^16, the source value being 0x0000 when the source
\* field is 0, and advances the program counter by 2; ADDI r1, r0, 0x0005 at
\* address 0 of a new machine gives register 1 = 5 and program counter 2.
C9_Addi ==
    (LastStep /\ PreOpcode = 8) =>
        LET value == IF PreSourceIndex = 0 THEN 0 ELSE pre.registers[PreSourceIndex]
            word == RamAt(pre.ram, (pre.program_counter + 1) % 65536)
        IN  /\ panic = "none"
            /\ registers[PreDestinationIndex] = (value + word) % 65536
            /\ program_counter = (pre.program_counter + 2) % 65536
            /\ (pre.registers = NewRegisters /\ pre.program_counter = 0
                    /\ PreInstruction = 72 /\ word = 5)
                  => (registers[1] = 5 /\ program_counter = 2)

C9_Witness ==
    /\ LastStep
    /\ steps = 1
    /\ pre.registers = NewRegisters
    /\ pre.program_counter = 0
    /\ PreInstruction = 72
    /\ PreImmediate = 5
    /\ registers[1] = 5
    /\ program_counter = 2

\* C10: a BEQ step sets the program counter to the immediate word when the
\* destination register value equals the source value and to the counter + 2
\* otherwise, a BNE step does the opposite, and neither changes a register or
\* a memory cell.
C10_BeqBne ==
    (LastStep /\ PreOpcode \in {42, 43}) =>
        LET equal == pre.registers[PreDestinationIndex] = PreSource
            taken == IF PreOpcode = 42 THEN equal ELSE ~equal
        IN  /\ panic = "none"
            /\ program_counter =
                  IF taken THEN RamAt(pre.ram, (pre.program_counter + 1) % 65536)
                  ELSE (pre.program_counter + 2) % 65536
            /\ registers = pre.registers
            /\ \A a \in DOMAIN ram \cup DOMAIN pre.ram : RamAt(ram, a) = RamAt(pre.ram, a)

C10_Witness ==
    /\ LastStep
    /\ PreOpcode = 43
    /\ pre.registers[PreDestinationIndex] # PreSource
    /\ RamAt(pre.ram, (pre.program_counter + 1) % 65536) = 16
    /\ pre.program_counter = 4
    /\ program_counter = 16

\* C11: BLT and BGE compare destination and source as signed 16-bit values,
\* BLTU and BGEU as unsigned values; the branch taken sets the program counter
\* to the immediate word and the other falls through to the counter + 2, so
\* that of BLT/BGE, and of BLTU/BGEU, exactly one takes the branch on a pair.
C11_SignedAndUnsignedBranches ==
    (LastStep /\ PreOpcode \in 44 .. 47) =>
        LET d == pre.registers[PreDestinationIndex]
            s == PreSource
            sd == IF d >= 32768 THEN d - 65536 ELSE d
            ss == IF s >= 32768 THEN s - 65536 ELSE s
            target == RamAt(pre.ram, (pre.program_counter + 1) % 65536)
            through == (pre.program_counter + 2) % 65536
            less == IF PreOpcode \in {44, 45} THEN sd < ss ELSE d < s
            taken == IF PreOpcode \in {44, 46} THEN less ELSE ~less
        IN  /\ panic = "none"
            /\ program_counter = IF taken THEN target ELSE through

C11_Witness ==
    /\ LastStep
    /\ PreOpcode = 44
    /\ pre.registers[PreDestinationIndex] = 65535
    /\ PreSource = 1
    /\ pre.program_counter = 4
    /\ program_counter = 16

\* C12: a JAL step sets the destination register to the old program counter
\* + 2 and the program counter to (source value + immediate) mod 2^16, the
\* source value being the one the register had before the step, also when
\* source and destination name the same register.
C12_Jal ==
    (LastStep /\ PreOpcode = 40) =>
        LET value == IF PreSourceIndex = 0 THEN 0 ELSE pre.registers[PreSourceIndex]
            word == RamAt(pre.ram, (pre.program_counter + 1) % 65536)
        IN  /\ panic = "none"
            /\ registers[PreDestinationIndex] = (pre.program_counter + 2) % 65536
            /\ program_counter = (value + word) % 65536

C12_Witness ==
    /\ LastStep
    /\ PreOpcode = 40
    /\ PreSourceIndex = PreDestinationIndex
    /\ PreSourceIndex = 2
    /\ pre.registers[2] = 100
    /\ pre.program_counter = 4
    /\ registers[2] = 6
    /\ program_counter = 110

\* the mnemonics of the arms of Cpu::step, by opcode
EngineMnemonic(op) ==
    CASE op = 0 -> "ADD" [] op = 1 -> "SUB" [] op = 2 -> "AND" [] op = 3 -> "OR"
      [] op = 4 -> "XOR" [] op = 5 -> "SLL" [] op = 6 -> "SRL" [] op = 7 -> "SRA"
      [] op = 8 -> "ADDI" [] op = 10 -> "ANDI" [] op = 11 -> "ORI" [] op = 12 -> "XORI"
      [] op = 13 -> "SFTI" [] op = 15 -> "SRAI" [] op = 16 -> "LD" [] op = 17 -> "ST"
      [] op = 24 -> "LDIO" [] op = 25 -> "STIO" [] op = 40 -> "JAL" [] op = 41 -> "JSH"
      [] op = 42 -> "BEQ" [] op = 43 -> "BNE" [] op = 44 -> "BLT" [] op = 45 -> "BGE"
      [] op = 46 -> "BLTU" [] op = 47 -> "BGEU"

\* C13: the rendered line is non-empty exactly for the opcodes step has an
\* arm for, begins with the engine's mnemonic, prints bits [10:6] as the
\* destination index and bits [15:11] as the source index, and for JSH prints
\* the 16-bit value that the engine's JSH step adds to the program counter.
C13_DisassemblerAgreesWithEngine ==
    /\ pre.kind = "render" =>
          /\ (Len(listing) > 0) <=> (opcode \in AssignedOpcodes)
          /\ opcode \in AssignedOpcodes =>
                /\ SubSeq(listing, 1, Len(EngineMnemonic(opcode))) = EngineMnemonic(opcode)
                /\ SubSeq(listing, Len(EngineMnemonic(opcode)) + 1,
                          Len(EngineMnemonic(opcode)) + 1) = " "
          /\ opcode \in AssignedOpcodes \ {41} =>
                /\ SubSeq(listing, 6, 6) = "r"
                /\ ParseDigits(SubSeq(listing, 7, 8), 10, 0) = DestinationIndex(instruction)
                /\ SubSeq(listing, 9, 11) = ", r"
                /\ ParseDigits(SubSeq(listing, 12, 13), 10, 0) = SourceIndex(instruction)
    /\ (pre2.kind = "render" /\ pre.kind = "step" /\ PreOpcode = 41) =>
          /\ SubSeq(listing, 16, 17) = "0x"
          /\ Len(listing) = 21
          /\ program_counter =
                (pre.program_counter + ParseDigits(SubSeq(listing, 18, 21), 16, 0)) % 65536

C13_Witness ==
    /\ pre2.kind = "render"
    /\ pre.kind = "step"
    /\ PreInstruction = 1022 * 64 + 41
    /\ listing = "JSH            0xfffe"
    /\ pre.program_counter = 1
    /\ program_counter = 65535

\* C17: for an instruction word whose opcode is unassigned the disassembly
\* is the empty string, whatever the immediate word is.
C17_UnassignedDisassemblesToEmpty ==
    (pre.kind = "render" /\ Opcode(instruction) \notin AssignedOpcodes) => listing = ""

C17_Witness ==
    /\ pre.kind = "render"
    /\ instruction = 17 * 2048 + 63
    /\ immediate = 65534
    /\ listing = ""

\* the operations that are one executed command
CommandKinds == {"rejected", "run", "halt", "step command", "load"}

\* the numeric literals that do not fit in 16 bits
OutOfRange(literal) ==
    \/ literal.kind = "decimal_literal" /\ literal.text = "65536"
    \/ literal.kind = "hex_literal" /\ literal.text = "10000"
    \/ literal.kind = "binary_literal" /\ literal.text = "10000000000000000"

MachineUnchanged ==
    /\ registers = pre.registers
    /\ program_counter = pre.program_counter
    /\ \A a \in DOMAIN ram \cup DOMAIN pre.ram : RamAt(ram, a) = RamAt(pre.ram, a)
    /\ instruction_history = pre.instruction_history
    /\ running = pre.running

\* C14: a command that returns an error (text that is no command, a STEP or
\* LOAD literal that does not fit in 16 bits, a LOAD of a file that cannot be
\* read) leaves registers, memory, program counter, instruction history and
\* the running flag as they were; a STEP with such a count performs no step.
C14_RejectedCommandChangesNothing ==
    (pre.kind \in CommandKinds /\ panic = "none") =>
        /\ (~stepping /\ ~command_result.ok) => MachineUnchanged
        /\ (\/ entered.verb = "unknown"
            \/ entered.verb \in {"step", "load"} /\ OutOfRange(entered.literal)
            \/ entered.verb = "load" /\ ~entered.file.exists)
              => (~command_result.ok /\ ~stepping /\ MachineUnchanged)

C14_Witness ==
    /\ pre.kind = "rejected"
    /\ entered.verb = "step"
    /\ entered.literal.text = "65536"
    /\ ~command_result.ok
    /\ running
    /\ steps = 3
    /\ program_counter = 3
    /\ Len(instruction_history) = 3

\* C15: a LOAD whose start address plus number of words exceeds 65536
\* returns a failure result, with memory, registers and program counter
\* unchanged, and does not abort the program.
C15_OversizeLoadIsRejected ==
    (/\ pre.kind \in CommandKinds
     /\ entered.verb = "load"
     /\ entered.file.exists
     /\ entered.literal.text = "FFFF"
     /\ Len(entered.file.bytes) \div 2 > 1)
        => (panic = "none" /\ ~command_result.ok /\ MachineUnchanged)

\* C16: a successful LOAD at address A of bytes b0 b1 b2 b3 ... sets
\* memory[A + i] = b(2i) * 256 + b(2i + 1) for every complete pair, ignores a
\* trailing odd byte and changes no other cell, no register and not the
\* program counter.
C16_BigEndianLoad ==
    (pre.kind = "load" /\ panic = "none") =>
        LET bytes == entered.file.bytes
            count == Len(bytes) \div 2
            A == IF entered.literal.kind = "none" THEN 0 ELSE 65535
        IN  /\ \A i \in 0 .. (count - 1) :
                  RamAt(ram, A + i) = bytes[2 * i + 1] * 256 + bytes[2 * i + 2]
            /\ \A a \in DOMAIN ram \cup DOMAIN pre.ram :
                  (a < A \/ a >= A + count) => RamAt(ram, a) = RamAt(pre.ram, a)
            /\ registers = pre.registers
            /\ program_counter = pre.program_counter

\* C18: in every state reachable from Cpu::new the slot registers[0] holds
\* 0x0000, so that the source value of a zero source field equals what a
\* lookup of slot 0 gives.
C18_SlotZeroStaysZero ==
    /\ registers[0] = 0
    /\ SourceIndex(instruction) = 0 => source = registers[SourceIndex(instruction)]

\* C19: a step of an instruction with an unassigned opcode leaves all 32
\* registers and all memory cells unchanged, whatever its other bits are.
C19_UnassignedChangesNoData ==
    (LastStep /\ PreOpcode \notin AssignedOpcodes) =>
        /\ panic = "none"
        /\ \A r \in 0 .. 31 : registers[r] = pre.registers[r]
        /\ \A a \in DOMAIN ram \cup DOMAIN pre.ram : RamAt(ram, a) = RamAt(pre.ram, a)

C19_Witness ==
    /\ LastStep
    /\ PreInstruction = 1 * 2048 + 1 * 64 + 14
    /\ pre.registers[1] = 7
    /\ registers[1] = 7
    /\ DOMAIN ram = DOMAIN pre.ram

\* C20: a step changes at most the register named by the destination field
\* and at most one memory cell; memory changes only for ST (the cell at the
\* source value) and STIO (the cell at (source + immediate) mod 65536), which
\* change no register; branches, JSH and unassigned opcodes change neither;
\* the register named by the source field changes only if it is the
\* destination too.
C20_StepFrame ==
    LastStep =>
        LET changed == {a \in DOMAIN ram \cup DOMAIN pre.ram : RamAt(ram, a) # RamAt(pre.ram, a)}
            word == RamAt(pre.ram, (pre.program_counter + 1) % 65536)
        IN  /\ \A r \in 0 .. 31 :
                  r # PreDestinationIndex => registers[r] = pre.registers[r]
            /\ PreSourceIndex # PreDestinationIndex
                  => registers[PreSourceIndex] = pre.registers[PreSourceIndex]
            /\ Cardinality(changed) <= 1
            /\ changed # {} =>
                  /\ PreOpcode \in {17, 25}
                  /\ registers = pre.registers
                  /\ PreOpcode = 17 => changed = {PreSource}
                  /\ PreOpcode = 25 => changed = {(PreSource + word) % 65536}
            /\ PreOpcode \in {17, 25} => registers = pre.registers
            /\ (PreOpcode \in 41 .. 47 \/ PreOpcode \notin AssignedOpcodes)
                  => (registers = pre.registers /\ changed = {})

C20_Witness ==
    /\ LastStep
    /\ PreOpcode = 25
    /\ PreSource = 65535
    /\ RamAt(pre.ram, (pre.program_counter + 1) % 65536) = 3
    /\ RamAt(pre.ram, 2) # 4660
    /\ RamAt(ram, 2) = 4660
    /\ registers = pre.registers

\* C21: the word in the cell after a one-word instruction (ADD, SUB, AND,
\* OR, XOR, SLL, SRL, SRA, LD, ST, JSH, an unassigned opcode) has no effect:
\* the step of a machine and the step of its twin, which differs from it only
\* in that cell, end with the same registers, the same program counter, the
\* same outcome and the same memory but for that cell, unless the instruction
\* is an LD that reads that cell.
C21_UnusedImmediateHasNoEffect ==
    (/\ twin.compared
     /\ LastStep
     /\ pre2.kind = "twin"
     /\ PreOpcode \in (0 .. 7) \cup {16, 17, 41} \cup ((0 .. 63) \ AssignedOpcodes)
     /\ ~(PreOpcode = 16 /\ PreSource = twin.cell))
        => /\ registers = twin.result.registers
           /\ program_counter = twin.result.program_counter
           /\ panic = twin.result.panic
           /\ \A a \in (DOMAIN ram \cup DOMAIN twin.result.ram) \ {twin.cell} :
                 RamAt(ram, a) = RamAt(twin.result.ram, a)

C21_Witness ==
    /\ twin.compared
    /\ LastStep
    /\ pre2.kind = "twin"
    /\ PreOpcode = 0
    /\ pre.program_counter = 65535
    /\ twin.cell = 0
    /\ RamAt(ram, 0) = 65535
    /\ RamAt(twin.result.ram, 0) = 7
    /\ registers[1] = 4663
    /\ program_counter = 0

\* C22: code and data share one memory: a word that ST or STIO stored at an
\* address stays in that cell until a later store or LOAD writes it; an LD
\* or LDIO from the address reads that word; and when the program counter
\* is that address the next step fetches the word, records it in the
\* history and executes the instruction it encodes.
C22_UnifiedMemory ==
    /\ \A a \in DOMAIN written : RamAt(ram, a) = written[a]
    /\ LastStep =>
          LET pc == pre.program_counter
              imm == RamAt(pre.ram, (pc + 1) % 65536)
              indexed == (PreSource + imm) % 65536
          IN  /\ (PreOpcode = 16 /\ PreSource \in DOMAIN pre.written)
                    => registers[PreDestinationIndex] = pre.written[PreSource]
              /\ (PreOpcode = 24 /\ indexed \in DOMAIN pre.written)
                    => registers[PreDestinationIndex] = pre.written[indexed]
              /\ pc \in DOMAIN pre.written =>
                    LET w == pre.written[pc]
                        d == Destination(pre.registers, w)
                        s == Source(pre.registers, w)
                    IN  /\ instruction_history[Len(instruction_history)] = <<w, imm>>
                        /\ w % 64 = 0 =>
                              /\ registers[(w \div 64) % 32] = (d + s) % 65536
                              /\ program_counter = (pc + 1) % 65536
                        /\ w % 64 = 8 =>
                              /\ registers[(w \div 64) % 32] = (s + imm) % 65536
                              /\ program_counter = (pc + 2) % 65536
                        /\ w % 64 = 17 =>
                              /\ RamAt(ram, s) = d
                              /\ program_counter = (pc + 1) % 65536
                        /\ w % 64 = 43 =>
                              program_counter = IF d # s THEN imm ELSE (pc + 2) % 65536

C22_Witness ==
    /\ LastStep
    /\ pre.program_counter = 65535
    /\ 65535 \in DOMAIN pre.written
    /\ pre.written[65535] = 1 * 2048 + 3 * 64 + 8
    /\ RamAt(pre.ram, 0) = 1 * 64 + 8
    /\ registers[3] = (1 * 2048 + 3 * 64 + 8 + 1 * 64 + 8) % 65536
    /\ program_counter = 1

\* C23: the instruction history never holds more than 255 entries; a step
\* appends exactly one entry, the pair of the instruction word and the
\* immediate word at the program counter the step began at, behind the
\* entries it found, and drops the oldest entry when there were 255 already;
\* nothing but a step changes the history.
C23_BoundedHistory ==
    /\ Len(instruction_history) <= 255
    /\ LastStep =>
          LET old == pre.instruction_history
              pair == <<RamAt(pre.ram, pre.program_counter),
                        RamAt(pre.ram, (pre.program_counter + 1) % 65536)>>
          IN  /\ instruction_history[Len(instruction_history)] = pair
              /\ Len(old) < 255 =>
                    /\ Len(instruction_history) = Len(old) + 1
                    /\ \A i \in 1 .. Len(old) : instruction_history[i] = old[i]
              /\ Len(old) = 255 =>
                    /\ Len(instruction_history) = 255
                    /\ \A i \in 1 .. 254 : instruction_history[i] = old[i + 1]
    /\ pre.kind # "step" => instruction_history = pre.instruction_history

C23_Witness ==
    /\ LastStep
    /\ Len(pre.instruction_history) = 255
    /\ pre.instruction_history[1] = <<0, 0>>
    /\ pre.instruction_history[254] = <<0, 0 * 2048 + 1 * 64 + 8>>
    /\ pre.instruction_history[255] = <<0 * 2048 + 1 * 64 + 8, 9>>
    /\ Len(instruction_history) = 255
    /\ instruction_history[253] = <<0, 0 * 2048 + 1 * 64 + 8>>
    /\ instruction_history[254] = <<0 * 2048 + 1 * 64 + 8, 9>>
    /\ instruction_history[255] = <<1 * 2048 + 1 * 64 + 0, 1 * 64 + 41>>
    /\ registers[1] = 18

\* what holds of the running flag and of RUN and HALT in every state
RunHaltStates ==
    /\ pre.kind = "new" => ~running
    /\ running # pre.running =>
          \/ running /\ pre.kind = "run" /\ entered.verb = "run" /\ command_result.ok
          \/ ~running /\ pre.kind = "halt" /\ entered.verb = "halt" /\ command_result.ok
    /\ pre.kind = "run" => (running /\ entered.verb = "run")
    /\ pre.kind = "halt" => (~running /\ entered.verb = "halt")
    /\ pre.kind \in {"run", "halt"} =>
          /\ registers = pre.registers
          /\ program_counter = pre.program_counter
          /\ \A a \in DOMAIN ram \cup DOMAIN pre.ram : RamAt(ram, a) = RamAt(pre.ram, a)
    /\ entered.verb = "halt" => (~running /\ steps = at_command.steps)

\* what one transition of the driver loop may do
RunHaltTransitions ==
    /\ running' # running =>
          /\ commands' = commands + 1
          /\ entered'.verb = IF running' THEN "run" ELSE "halt"
          /\ command_result'.ok
    /\ steps' # steps =>
          /\ steps' = steps + 1
          /\ stepping \/ (running /\ handled # "poll")
    /\ (~stepping /\ handled # "poll" /\ handled' = "poll") =>
          steps' = IF running THEN steps + 1 ELSE steps

\* C24: the running flag is false after construction, becomes true only by
\* a RUN command and false only by a HALT command, both of which are accepted
\* and leave registers, memory and program counter alone; every iteration of
\* the driver loop ends with exactly one step when the flag is true and with
\* none when it is false, so that once HALT is the latest command no step
\* happens; a step happens only at the end of such an iteration or inside
\* the loop of a STEP command.
C24_RunHaltProtocol == [](RunHaltStates) /\ [][RunHaltTransitions]_vars

C24_Witness ==
    /\ pre.kind = "halt"
    /\ pre.running
    /\ ~running
    /\ entered.verb = "halt"
    /\ command_result.ok
    /\ handled = "poll"
    /\ at_command.steps = 2
    /\ steps = 2
    /\ program_counter = 2

\* the count that the literal of the latest command denotes
EnteredCount ==
    CASE entered.literal.kind = "none" -> 1
      [] entered.literal.kind = "decimal_literal" /\ entered.literal.text = "0" -> 0
      [] entered.literal.kind = "hex_literal" /\ entered.literal.text = "2" -> 2
      [] entered.literal.kind = "binary_literal" /\ entered.literal.text = "101" -> 5
      [] OTHER -> 65536

\* execute_command has returned and its iteration of the driver loop has
\* not ended yet
CommandReturned == handled = "enter" /\ ~stepping /\ panic = "none"

\* C25: a STEP command whose count n fits in 16 bits (decimal, 0x hex or 0b
\* binary, 1 when omitted) is accepted, reports n, and when it returns
\* exactly n steps have been made since it began, one after the other, and
\* the running flag is as it was; after STEP 0 registers, memory, program
\* counter and history are as they were; whenever execute_command returns,
\* with an accepted or a rejected command, the command buffer is empty.
C25_StepCommand ==
    /\ (stepping /\ panic = "none") =>
          /\ entered.verb = "step"
          /\ steps + remaining = at_command.steps + EnteredCount
          /\ running = at_command.machine.running
    /\ (CommandReturned /\ entered.verb = "step" /\ EnteredCount < 65536) =>
          /\ command_result.ok
          /\ command_result.values = <<EnteredCount>>
          /\ steps = at_command.steps + EnteredCount
          /\ running = at_command.machine.running
          /\ EnteredCount = 0 =>
                /\ registers = at_command.machine.registers
                /\ program_counter = at_command.machine.program_counter
                /\ \A a \in DOMAIN ram \cup DOMAIN at_command.machine.ram :
                      RamAt(ram, a) = RamAt(at_command.machine.ram, a)
                /\ instruction_history = at_command.machine.instruction_history
    /\ CommandReturned => command_buffer = [verb |-> "", literal |-> [kind |-> "none", text |-> ""]]

C25_Witness ==
    /\ CommandReturned
    /\ entered.verb = "step"
    /\ entered.literal.text = "101"
    /\ command_result.ok
    /\ at_command.steps = 0
    /\ steps = 5
    /\ ~running
    /\ registers[1] = 4660
    /\ Len(instruction_history) = 5
    /\ command_buffer.verb = ""

====
